---- MODULE Spec2Model ----
(***************************************************************************)
(* A model of GoogleWeatherTool (src/mcp_weather_tool/google_weather.py):   *)
(* construction of the resolved settings, location resolution, geocoding,  *)
(* the three weather queries and the asynchronous execute entry point.     *)
(*                                                                         *)
(* Python values are records [t, n, s]: t is the type tag, n the number    *)
(* (floats are fixed point, in tenths), s the string as a sequence of      *)
(* characters.  A few long fixed texts (environment variable names, error  *)
(* messages) are single elements of such a sequence.                       *)
(*                                                                         *)
(* execute is a coroutine: an invocation runs without interruption up to   *)
(* an await of client.get, where other invocations may run, and goes on    *)
(* when the GET answers or raises.  inv[i].pc is where invocation i is.    *)
(***************************************************************************)
EXTENDS Integers, Sequences, FiniteSets, TLC

\* ------------------------------------------------------------ bounds
\* The number of tasks that call execute concurrently in SpecConc.
NumCalls == 2

\* ------------------------------------------------------------ values
PyNone == [t |-> "none", n |-> 0, s |-> <<>>]
Absent == [t |-> "absent", n |-> 0, s |-> <<>>]
PyStr(chars) == [t |-> "str", n |-> 0, s |-> chars]
PyInt(k) == [t |-> "int", n |-> k, s |-> <<>>]
PyFloat(k) == [t |-> "float", n |-> k, s |-> <<>>]
PyBool(b) == [t |-> "bool", n |-> IF b THEN 1 ELSE 0, s |-> <<>>]

\* dict.get(key): a missing key reads as None.
Get(v) == IF v.t = "absent" THEN PyNone ELSE v
\* dict.get(key, default)
GetDefault(v, default) == IF v.t = "absent" THEN default ELSE v
\* Python truthiness, as used by `or`, `not` and `if`.
Truthy(v) ==
  CASE v.t \in {"none", "absent"} -> FALSE
    [] v.t = "str" -> v.s # <<>>
    [] OTHER -> v.n # 0
\* a or b
Or(a, b) == IF Truthy(a) THEN a ELSE b

\* ------------------------------------------------------------ characters
Digits == {"0", "1", "2", "3", "4", "5", "6", "7", "8", "9"}
Signs == {"+", "-"}
Space == {" "}

DigitVal(c) ==
  CASE c = "0" -> 0 [] c = "1" -> 1 [] c = "2" -> 2 [] c = "3" -> 3
    [] c = "4" -> 4 [] c = "5" -> 5 [] c = "6" -> 6 [] c = "7" -> 7
    [] c = "8" -> 8 [] c = "9" -> 9 [] OTHER -> 0

RECURSIVE LStrip(_)
LStrip(w) == IF w # <<>> /\ Head(w) \in Space THEN LStrip(Tail(w)) ELSE w
RECURSIVE RStrip(_)
RStrip(w) ==
  IF w # <<>> /\ w[Len(w)] \in Space THEN RStrip(SubSeq(w, 1, Len(w) - 1)) ELSE w
Strip(w) == RStrip(LStrip(w))

Positions(w, c) == {k \in 1..Len(w) : w[k] = c}
Unsigned(w) == IF w # <<>> /\ Head(w) \in Signs THEN Tail(w) ELSE w
IsNegative(w) == w # <<>> /\ Head(w) = "-"

RECURSIVE DigitsValue(_)
DigitsValue(w) ==
  IF w = <<>> THEN 0 ELSE DigitsValue(SubSeq(w, 1, Len(w) - 1)) * 10 + DigitVal(w[Len(w)])

\* The decimal text u (digits with at most one point) as a fixed-point number:
\* the fraction is cut after its first digit.
DecimalValue(u) ==
  LET dots == Positions(u, ".")
      d == IF dots = {} THEN Len(u) + 1 ELSE CHOOSE k \in dots : TRUE
      whole == SubSeq(u, 1, d - 1)
      frac == SubSeq(u, d + 1, Len(u))
      tenths == IF frac = <<>> THEN 0 ELSE DigitVal(frac[1])
  IN DigitsValue(whole) * 10 + tenths

\* The text float() accepts, after stripping: [sign] digits [. digits] | [sign] . digits
\* (a trailing point, "1.", is accepted).
FloatText(w) ==
  LET u == Unsigned(Strip(w))
  IN /\ u # <<>>
     /\ \A k \in 1..Len(u) : u[k] \in Digits \cup {"."}
     /\ Cardinality(Positions(u, ".")) <= 1
     /\ \E k \in 1..Len(u) : u[k] \in Digits

FloatOfText(w) ==
  LET t == Strip(w)
      m == DecimalValue(Unsigned(t))
  IN IF IsNegative(t) THEN 0 - m ELSE m

\* float(v): TRUE when the conversion does not raise.
CanFloat(v) ==
  CASE v.t \in {"int", "float", "bool"} -> TRUE
    [] v.t = "str" -> FloatText(v.s)
    [] OTHER -> FALSE
\* float(v), in tenths.
ToFloat(v) ==
  CASE v.t = "float" -> v.n
    [] v.t \in {"int", "bool"} -> v.n * 10
    [] v.t = "str" -> FloatOfText(v.s)
    [] OTHER -> 0

\* int(v): TRUE when the conversion does not raise (a text must be an integer
\* literal: float-like text such as "1.5" raises).
CanInt(v) ==
  CASE v.t \in {"int", "float", "bool"} -> TRUE
    [] v.t = "str" ->
         LET u == Unsigned(Strip(v.s))
         IN u # <<>> /\ \A k \in 1..Len(u) : u[k] \in Digits
    [] OTHER -> FALSE
ToInt(v) ==
  CASE v.t \in {"int", "bool"} -> v.n
    [] v.t = "float" -> IF v.n >= 0 THEN v.n \div 10 ELSE 0 - ((0 - v.n) \div 10)
    [] v.t = "str" ->
         LET t == Strip(v.s)
         IN IF IsNegative(t) THEN 0 - DigitsValue(Unsigned(t)) ELSE DigitsValue(Unsigned(t))
    [] OTHER -> 0

\* ------------------------------------------------------------ _parse_lat_lon
\* [+-]?[0-9]*\.?[0-9]+ : an optional sign, then digits with at most one point,
\* ending in a digit.
NumberGroup(g) ==
  LET u == Unsigned(g)
  IN /\ u # <<>>
     /\ \A k \in 1..Len(u) : u[k] \in Digits \cup {"."}
     /\ Cardinality(Positions(u, ".")) <= 1
     /\ u[Len(u)] \in Digits

\* re.match(r"^\s*(NUM)\s*,\s*(NUM)\s*$", value): neither group nor \s holds a
\* comma, so the text splits at its only comma.
parse_lat_lon(value) ==
  LET commas == Positions(value, ",")
      c == CHOOSE k \in commas : TRUE
      g1 == Strip(SubSeq(value, 1, c - 1))
      g2 == Strip(SubSeq(value, c + 1, Len(value)))
  IN IF Cardinality(commas) = 1 /\ NumberGroup(g1) /\ NumberGroup(g2)
     THEN [ok |-> TRUE, lat |-> FloatOfText(g1), lon |-> FloatOfText(g2)]
     ELSE [ok |-> FALSE, lat |-> 0, lon |-> 0]

\* ------------------------------------------------------------ construction
\* str(v)
Str(v) ==
  CASE v.t = "str" -> v.s
    [] v.t \in {"none", "absent"} -> <<"None">>
    [] v.t = "bool" -> IF v.n = 1 THEN <<"True">> ELSE <<"False">>
    [] OTHER -> <<"number">>

\* str.lower(), on the texts the configuration uses.
LowerChar(c) ==
  CASE c = "METRIC" -> "metric"
    [] c = "Imperial" -> "imperial"
    [] OTHER -> c
Lower(w) == [k \in 1..Len(w) |-> LowerChar(w[k])]

RECURSIVE RStripSlash(_)
RStripSlash(w) ==
  IF w # <<>> /\ w[Len(w)] = "/" THEN RStripSlash(SubSeq(w, 1, Len(w) - 1)) ELSE w

\* os.getenv(name)
Getenv(environ, name) == IF name \in DOMAIN environ THEN environ[name] ELSE PyNone

GOOGLE_WEATHER_API_KEY == <<"GOOGLE_WEATHER_API_KEY">>
GOOGLE_API_KEY == <<"GOOGLE_API_KEY">>
GOOGLE_MAPS_API_KEY == <<"GOOGLE_MAPS_API_KEY">>
EnvNames == {GOOGLE_WEATHER_API_KEY, GOOGLE_API_KEY, GOOGLE_MAPS_API_KEY}

\* _expand_env(val): "${NAME}" reads the environment, anything else passes.
expand_env(environ, val) ==
  IF /\ val.t = "str"
     /\ Len(val.s) >= 2 /\ val.s[1] = "$" /\ val.s[2] = "{"
     /\ val.s[Len(val.s)] = "}"
  THEN Getenv(environ, SubSeq(val.s, 3, Len(val.s) - 1))
  ELSE val

DefaultBaseUrl == PyStr(<<"https://weather.googleapis.com/v1">>)
DefaultGeocodingBaseUrl == PyStr(<<"https://maps.googleapis.com/maps/api/geocode/json">>)

\* The weather key with the two environment variables read in the other order.
init_api_key_swapped(params, environ) ==
  LET api_key == Or(Or(expand_env(environ, Get(params.api_key)),
                       Getenv(environ, GOOGLE_API_KEY)),
                    Getenv(environ, GOOGLE_WEATHER_API_KEY))
  IN IF Truthy(api_key) THEN api_key ELSE PyNone
\* The weather key: api_key or GOOGLE_WEATHER_API_KEY or GOOGLE_API_KEY, else None.
init_api_key(params, environ) ==
  LET api_key == Or(Or(expand_env(environ, Get(params.api_key)),
                       Getenv(environ, GOOGLE_WEATHER_API_KEY)),
                    Getenv(environ, GOOGLE_API_KEY))
  IN IF Truthy(api_key) THEN api_key ELSE PyNone

\* The geocoding key: geocoding_api_key or GOOGLE_MAPS_API_KEY or self.api_key.
init_geocoding_api_key(params, environ, api_key) ==
  LET geo_key == Or(Or(expand_env(environ, Get(params.geocoding_api_key)),
                       Getenv(environ, GOOGLE_MAPS_API_KEY)),
                    api_key)
  IN IF Truthy(geo_key) THEN geo_key ELSE PyNone

\* GoogleWeatherTool.__init__: the resolved settings (the fields of self).
GoogleWeatherTool(params, environ) ==
  LET api_key == init_api_key(params, environ)
  IN [api_key |-> api_key,
      base_url |->
        RStripSlash(Str(expand_env(environ, GetDefault(params.base_url, DefaultBaseUrl)))),
      units_default |-> Lower(Str(GetDefault(params.units, PyStr(<<"imperial">>)))),
      language_default |-> Str(GetDefault(params.language, PyStr(<<"en">>))),
      geocoding_enabled |-> Truthy(GetDefault(params.geocoding_enabled, PyBool(TRUE))),
      geocoding_api_key |-> init_geocoding_api_key(params, environ, api_key),
      geocoding_base_url |->
        RStripSlash(Str(expand_env(environ,
          GetDefault(params.geocoding_base_url, DefaultGeocodingBaseUrl))))]

\* The settings of a tool that is not constructed yet.
Unbuilt ==
  [api_key |-> PyNone, base_url |-> <<>>, units_default |-> <<>>,
   language_default |-> <<>>, geocoding_enabled |-> FALSE,
   geocoding_api_key |-> PyNone, geocoding_base_url |-> <<>>]

\* ------------------------------------------------------------ results
NoResult == [shape |-> "none", keys |-> {}, error |-> <<>>, status_code |-> 0, body |-> <<>>]
\* return {"error": message}
ErrorResult(message) ==
  [shape |-> "error", keys |-> {"error"}, error |-> message, status_code |-> 0, body |-> <<>>]
\* return {"status_code": ..., "headers": ..., "body": ...}
ResponseResult(status_code, body) ==
  [shape |-> "response", keys |-> {"status_code", "headers", "body"}, error |-> <<>>,
   status_code |-> status_code, body |-> body]
\* An exception that leaves execute: no value is returned.
Raised(message) ==
  [shape |-> "raised", keys |-> {}, error |-> message, status_code |-> 0, body |-> <<>>]

NoRequest ==
  [path |-> "", key |-> PyNone, latitude |-> 0, longitude |-> 0, unitsSystem |-> PyNone,
   languageCode |-> PyNone, hours |-> Absent, days |-> Absent]

NoKwargs ==
  [action |-> Absent, latitude |-> Absent, longitude |-> Absent, lat |-> Absent,
   lon |-> Absent, location |-> Absent, unitsSystem |-> Absent, units |-> Absent,
   language |-> Absent, hours |-> Absent, days |-> Absent]

\* What client.get of the geocoding endpoint does: it raises (transport error,
\* timeout) or answers with a body that is JSON or not, a mapping or not, with a
\* status and results that carry geometry.location or not.
GeocodeResponse(raised, json, isdict, status, results) ==
  [raised |-> raised, json |-> json, isdict |-> isdict, status |-> status,
   results |-> results]
NoGeocodeResponse == GeocodeResponse(FALSE, FALSE, FALSE, "", <<>>)
\* What client.get of a weather endpoint does: it raises or answers.
WeatherResponse(raised, status_code, json, content) ==
  [raised |-> raised, status_code |-> status_code, json |-> json, content |-> content]
NoWeatherResponse == WeatherResponse(FALSE, 0, FALSE, "")

\* The value of _resolve_location: coordinates, an {"error": ...} mapping, or
\* none because an exception left it.
NoLocation == [k |-> "none", lat |-> 0, lon |-> 0, error |-> <<>>]
Coordinates(lat, lon) == [k |-> "coords", lat |-> lat, lon |-> lon, error |-> <<>>]
LocationError(message) == [k |-> "error", lat |-> 0, lon |-> 0, error |-> message]
LocationRaised(message) == [k |-> "raised", lat |-> 0, lon |-> 0, error |-> message]

\* One invocation of execute: where it is suspended, its arguments and locals,
\* the HTTP clients it holds open, the GETs it has issued and what it returned.
Idle ==
  [pc |-> "idle", kwargs |-> NoKwargs, location_result |-> NoLocation,
   address |-> <<>>, open |-> 0, opened |-> 0, geocode_calls |-> 0, geocode_gets |-> 0, weather_gets |-> 0, weather_response |-> FALSE,
   geocode_response |-> NoGeocodeResponse, weather_reply |-> NoWeatherResponse,
   request |-> NoRequest, result |-> NoResult]

\* ------------------------------------------------------------ state
VARIABLES
  params,       \* conf["params"], the raw parameter mapping
  environ,      \* os.environ, read at construction
  constructed,  \* whether __init__ has run
  self,         \* the resolved settings of the tool instance
  inv           \* the invocations of execute, by task

vars == <<params, environ, constructed, self, inv>>

\* ------------------------------------------------------------ execute
current_conditions == PyStr(<<"current_conditions">>)
hourly_forecast == PyStr(<<"hourly_forecast">>)
daily_forecast == PyStr(<<"daily_forecast">>)

\* hours = int(kwargs.get("hours", 24)); days = int(kwargs.get("days", 10))
DefaultHours == 24
DefaultDays == 10

Finish(c, result) == [c EXCEPT !.pc = "done", !.result = result]
\* async with httpx.AsyncClient(timeout=30.0) as client: entering and leaving.
OpenClient(c) == [c EXCEPT !.open = @ + 1, !.opened = @ + 1]
\* A client that is never closed.
KeepClient(c) == c
CloseClient(c) == [c EXCEPT !.open = @ - 1]

\* What _resolve_location has before any await: coordinates, an error, or the
\* address it is about to geocode.
Unresolved == [k |-> "error", lat |-> 0, lon |-> 0, error |-> <<>>, address |-> <<>>]

\* A location string sent to geocoding before it is tried as "lat,lon".
location_from_string_geocode_first(loc_str, s) ==
  IF loc_str.t = "str"
  THEN IF s.geocoding_enabled
       THEN [Unresolved EXCEPT !.k = "geocode", !.address = loc_str.s]
       ELSE LET parsed == parse_lat_lon(loc_str.s)
            IN IF parsed.ok
               THEN [Unresolved EXCEPT !.k = "coords", !.lat = parsed.lat, !.lon = parsed.lon]
               ELSE [Unresolved EXCEPT !.error =
                       <<"Provide latitude and longitude or enable geocoding with a resolvable location string.">>]
  ELSE [Unresolved EXCEPT !.error =
          <<"Missing location. Provide latitude and longitude or a 'location' string.">>]
\* _resolve_location from `loc_str = kwargs.get("location")` on.
location_from_string(loc_str, s) ==
  IF loc_str.t = "str"
  THEN LET parsed == parse_lat_lon(loc_str.s)
       IN IF parsed.ok
          THEN [Unresolved EXCEPT !.k = "coords", !.lat = parsed.lat, !.lon = parsed.lon]
          ELSE IF s.geocoding_enabled
          THEN [Unresolved EXCEPT !.k = "geocode", !.address = loc_str.s]
          ELSE [Unresolved EXCEPT !.error =
                  <<"Provide latitude and longitude or enable geocoding with a resolvable location string.">>]
  ELSE [Unresolved EXCEPT !.error =
          <<"Missing location. Provide latitude and longitude or a 'location' string.">>]

\* _resolve_location up to its call of _geocode.
resolve_location(kwargs, s) ==
  LET none == Unresolved
      loc_str == Get(kwargs.location)
  IN IF Get(kwargs.latitude) # PyNone /\ Get(kwargs.longitude) # PyNone
     THEN IF CanFloat(kwargs.latitude) /\ CanFloat(kwargs.longitude)
          THEN [none EXCEPT !.k = "coords", !.lat = ToFloat(kwargs.latitude),
                            !.lon = ToFloat(kwargs.longitude)]
          ELSE [none EXCEPT !.error =
                  <<"Invalid latitude/longitude values; must be numeric.">>]
     ELSE IF Get(kwargs.lat) # PyNone /\ Get(kwargs.lon) # PyNone
     THEN IF CanFloat(kwargs.lat) /\ CanFloat(kwargs.lon)
          THEN [none EXCEPT !.k = "coords", !.lat = ToFloat(kwargs.lat),
                            !.lon = ToFloat(kwargs.lon)]
          ELSE [none EXCEPT !.error = <<"Invalid lat/lon values; must be numeric.">>]
     ELSE location_from_string(loc_str, s)

\* _resolve_location's wrapping of an error _geocode returned.
geocode_error(loc_str, reason) ==
  LocationError(<<"Could not geocode location '">> \o loc_str \o <<"'. ">> \o reason)

\* execute returns the error mapping _resolve_location gave it.
return_location_error(c, location_result) ==
  Finish([c EXCEPT !.location_result = location_result],
         ErrorResult(location_result.error))
\* An exception leaves _resolve_location, and execute, which calls it outside
\* its try block.
raise_from_location(c, message) ==
  Finish([c EXCEPT !.location_result = LocationRaised(message)], Raised(message))

\* The query parameters of one weather request.
weather_request(s, path, lat, lon, units, language, hours, days) ==
  [path |-> path, key |-> s.api_key, latitude |-> lat, longitude |-> lon,
   unitsSystem |-> units, languageCode |-> language, hours |-> hours, days |-> days]

\* _get up to its await of client.get: the client is open, the GET is out.
get(c, request) ==
  [OpenClient(c) EXCEPT !.pc = "weather_get", !.weather_gets = @ + 1,
                        !.request = request]

\* The error for an unknown action without the action's name.
unknown_action_unnamed(c, action) == Finish(c, ErrorResult(<<"Unknown action: ">>))
\* return {"error": f"Unknown action: {action}"}
unknown_action(c, action) == Finish(c, ErrorResult(<<"Unknown action: ">> \o Str(action)))

\* execute from `lat, lon = location_result` on: the per-call overrides and the
\* dispatch on the action, inside try/except.
dispatch(c0, s, lat, lon) ==
  LET c == [c0 EXCEPT !.location_result = Coordinates(lat, lon)]
      kwargs == c.kwargs
      action == Get(kwargs.action)
      units == GetDefault(kwargs.unitsSystem, PyStr(s.units_default))
      language == GetDefault(kwargs.language, PyStr(s.language_default))
      hours == GetDefault(kwargs.hours, PyInt(DefaultHours))
      days == GetDefault(kwargs.days, PyInt(DefaultDays))
      failed(what) ==
        Finish(c, ErrorResult(<<"Execution failed: ", "invalid int()", what>>))
  IN CASE action = current_conditions ->
            get(c, weather_request(s, "/currentConditions:lookup", lat, lon,
                                   units, language, Absent, Absent))
       [] action = hourly_forecast ->
            IF CanInt(hours)
            THEN get(c, weather_request(s, "/forecast/hours:lookup", lat, lon,
                                        units, language, PyInt(ToInt(hours)), Absent))
            ELSE failed("hours")
       [] action = daily_forecast ->
            IF CanInt(days)
            THEN get(c, weather_request(s, "/dailyForecast:lookup", lat, lon,
                                        units, language, Absent, PyInt(ToInt(days))))
            ELSE failed("days")
       [] OTHER -> unknown_action(c, action)

\* _geocode without its check of the key.
geocode_unchecked(c, s, address) ==
  [OpenClient(c) EXCEPT !.pc = "geocode_get", !.geocode_calls = @ + 1,
                        !.geocode_gets = @ + 1, !.address = address]
\* _geocode up to its await of client.get, as called from _resolve_location.
geocode(c, s, address) ==
  IF ~Truthy(s.geocoding_api_key)
  THEN return_location_error([c EXCEPT !.geocode_calls = @ + 1, !.address = address],
         geocode_error(address,
           <<"Geocoding is enabled but no geocoding_api_key is configured.">>))
  ELSE [OpenClient(c) EXCEPT !.pc = "geocode_get", !.geocode_calls = @ + 1,
                             !.geocode_gets = @ + 1, !.address = address]

\* execute from its call to the first await that suspends it, or to its return.
execute_begin(c, s) ==
  IF ~Truthy(Get(c.kwargs.action))
  THEN Finish(c, ErrorResult(<<"Missing required 'action' parameter">>))
  ELSE LET r == resolve_location(c.kwargs, s)
       IN CASE r.k = "error" -> return_location_error(c, LocationError(r.error))
            [] r.k = "geocode" -> geocode(c, s, r.address)
            [] OTHER -> dispatch(c, s, r.lat, r.lon)

\* The rest of _geocode once client.get has answered or raised, and what
\* _resolve_location and execute do with it.  The client is closed on every path.
geocode_resume(c, s, resp) ==
  LET d == [CloseClient(c) EXCEPT !.geocode_response = resp]
  IN CASE resp.raised -> raise_from_location(d, <<"transport error">>)
       [] ~resp.json ->
            return_location_error(d, geocode_error(c.address,
                                       <<"Geocoding response was not JSON.">>))
       [] ~resp.isdict -> raise_from_location(d, <<"AttributeError">>)
       [] resp.status # "OK" \/ resp.results = <<>> ->
            return_location_error(d, geocode_error(c.address,
                                       <<"Geocoding failed with status ", resp.status>>))
       [] ~resp.results[1].geometry -> raise_from_location(d, <<"KeyError">>)
       [] OTHER -> dispatch(d, s, resp.results[1].lat, resp.results[1].lng)

\* _get turning a non-2xx answer into an exception, as raise_for_status would.
get_resume_raise_for_status(c, resp) ==
  LET d == [CloseClient(c) EXCEPT !.weather_reply = resp]
  IN IF resp.raised \/ resp.status_code \notin 200..299
     THEN Finish(d, ErrorResult(<<"Execution failed: ", "transport error">>))
     ELSE Finish([d EXCEPT !.weather_response = TRUE],
                 ResponseResult(resp.status_code,
                                <<IF resp.json THEN "json" ELSE "bytes", resp.content>>))
\* The rest of _get once client.get has answered or raised, and execute's
\* except clause around it.
get_resume(c, resp) ==
  LET d == [CloseClient(c) EXCEPT !.weather_reply = resp]
  IN IF resp.raised
     THEN Finish(d, ErrorResult(<<"Execution failed: ", "transport error">>))
     ELSE Finish([d EXCEPT !.weather_response = TRUE],
                 ResponseResult(resp.status_code,
                                <<IF resp.json THEN "json" ELSE "bytes", resp.content>>))

\* ------------------------------------------------------------ inputs
Text(w) == PyStr(w)
Seattle == <<"S", "e", "a", "t", "t", "l", "e">>

\* The raw parameter mappings and environments a tool is constructed from.
ApiKeyParams ==
  {Absent, Text(<<>>), Text(<<"K", "1">>),
   Text(<<"$", "{", "GOOGLE_WEATHER_API_KEY", "}">>),
   Text(<<"$", "{", "UNSET_NAME", "}">>),
   Text(<<"$", "{", "GOOGLE_API_KEY">>)}
GeocodingKeyParams ==
  {Absent, Text(<<>>), Text(<<"G", "1">>), Text(<<"$", "{", "GOOGLE_MAPS_API_KEY", "}">>)}
EnvValues(name) == {PyNone, Text(<<>>), Text(<<"XYZ">> \o name)}
Environs == {e \in [EnvNames -> UNION {EnvValues(n) : n \in EnvNames}] :
               \A n \in EnvNames : e[n] \in EnvValues(n)}
AllParams ==
  [api_key : ApiKeyParams,
   geocoding_api_key : GeocodingKeyParams,
   base_url : {Absent, Text(<<"http://wx", "/", "/">>)},
   units : {Absent, Text(<<"METRIC">>)},
   language : {Absent, Text(<<"fr">>)},
   geocoding_enabled : {Absent, PyBool(TRUE), PyBool(FALSE)},
   geocoding_base_url : {Absent}]

\* The configurations the invocations are run under: with and without a key,
\* geocoding enabled and disabled.
RunParams ==
  [api_key : {Absent, Text(<<"K", "1">>)},
   geocoding_api_key : {Absent},
   base_url : {Absent},
   units : {Absent},
   language : {Absent},
   geocoding_enabled : {Absent, PyBool(FALSE)},
   geocoding_base_url : {Absent}]
NoEnviron == [n \in EnvNames |-> PyNone]

\* The arguments of one call of execute.
ActionValues ==
  {Absent, Text(<<>>), current_conditions, hourly_forecast, daily_forecast,
   Text(<<"bogus_action">>)}
NotNumeric == Text(<<"a", "b", "c">>)
LocationValues ==
  {Absent, PyInt(5),
   Text(<<"4", "7", ".", "6", ",", "-", "1", "2", "2", ".", "3">>),
   Text(<<" ", ".", "5", " ", ",", " ", "+", "2", " ">>),
   Text(<<"1", ".", ",", "2">>),
   Text(Seattle)}
Kwargs ==
  [action : ActionValues,
   latitude : {Absent, PyFloat(476), NotNumeric},
   longitude : {Absent, PyFloat(-1223), NotNumeric},
   lat : {Absent, PyInt(1), NotNumeric},
   lon : {Absent, Text(<<"2", ".">>), NotNumeric},
   location : LocationValues,
   unitsSystem : {Absent, Text(<<"metric">>)},
   units : {Absent, Text(<<"metric">>)},
   language : {Absent, Text(<<"fr">>)},
   hours : {Absent, PyInt(12), NotNumeric},
   days : {Absent, Text(<<"7">>), NotNumeric}]

\* The arguments of the calls that run concurrently.
KwargsConc ==
  [action : {current_conditions, Text(<<"bogus_action">>)},
   latitude : {Absent},
   longitude : {Absent},
   lat : {Absent},
   lon : {Absent},
   location : {Text(Seattle),
               Text(<<"4", "7", ".", "6", ",", "-", "1", "2", "2", ".", "3">>)},
   unitsSystem : {Absent, Text(<<"metric">>)},
   units : {Absent},
   language : {Absent},
   hours : {Absent},
   days : {Absent}]

Place(geometry, lat, lng) == [geometry |-> geometry, lat |-> lat, lng |-> lng]
GeocodeResponses ==
  {GeocodeResponse(TRUE, FALSE, FALSE, "", <<>>),
   GeocodeResponse(FALSE, FALSE, FALSE, "", <<>>),
   GeocodeResponse(FALSE, TRUE, FALSE, "", <<>>),
   GeocodeResponse(FALSE, TRUE, TRUE, "ZERO_RESULTS", <<>>),
   GeocodeResponse(FALSE, TRUE, TRUE, "REQUEST_DENIED", <<Place(TRUE, 10, 20)>>),
   GeocodeResponse(FALSE, TRUE, TRUE, "OK", <<>>),
   GeocodeResponse(FALSE, TRUE, TRUE, "OK", <<Place(FALSE, 0, 0)>>),
   GeocodeResponse(FALSE, TRUE, TRUE, "OK", <<Place(TRUE, 476, -1223), Place(TRUE, 10, 20)>>)}
WeatherResponses ==
  {WeatherResponse(TRUE, 0, FALSE, ""),
   WeatherResponse(FALSE, 200, TRUE, "{...}"),
   WeatherResponse(FALSE, 404, TRUE, "{error}"),
   WeatherResponse(FALSE, 500, FALSE, "<html>"),
   WeatherResponse(FALSE, 200, FALSE, "")}

\* ------------------------------------------------------------ actions
\* __init__
Construct ==
  /\ ~constructed
  /\ constructed' = TRUE
  /\ self' = GoogleWeatherTool(params, environ)
  /\ UNCHANGED <<params, environ, inv>>

\* execute keeping the caller's unitsSystem as the tool's new default.
execute_storing_units(i, kwargs) ==
  /\ constructed
  /\ inv[i].pc = "idle"
  /\ inv' = [inv EXCEPT ![i] = execute_begin([Idle EXCEPT !.kwargs = kwargs], self)]
  /\ self' = [self EXCEPT !.units_default =
                Str(GetDefault(kwargs.unitsSystem, PyStr(self.units_default)))]
  /\ UNCHANGED <<params, environ, constructed>>
\* A caller awaits execute(**kwargs): it runs to its first suspension or return.
execute(i, kwargs) ==
  /\ constructed
  /\ inv[i].pc = "idle"
  /\ inv' = [inv EXCEPT ![i] = execute_begin([Idle EXCEPT !.kwargs = kwargs], self)]
  /\ UNCHANGED <<params, environ, constructed, self>>

\* The geocoding GET of invocation i answers or raises.
geocode_get(i, resp) ==
  /\ inv[i].pc = "geocode_get"
  /\ inv' = [inv EXCEPT ![i] = geocode_resume(inv[i], self, resp)]
  /\ UNCHANGED <<params, environ, constructed, self>>

\* The weather GET of invocation i answers or raises.
weather_get(i, resp) ==
  /\ inv[i].pc = "weather_get"
  /\ inv' = [inv EXCEPT ![i] = get_resume(inv[i], resp)]
  /\ UNCHANGED <<params, environ, constructed, self>>

\* The caller consumes the result (or the exception); the task may call again.
Return(i) ==
  /\ inv[i].pc = "done"
  /\ inv' = [inv EXCEPT ![i] = Idle]
  /\ UNCHANGED <<params, environ, constructed, self>>

\* ------------------------------------------------------------ specifications
\* Construction from every raw configuration.
InitConfig ==
  /\ params \in AllParams
  /\ environ \in Environs
  /\ constructed = FALSE
  /\ self = Unbuilt
  /\ inv = [i \in 1..1 |-> Idle]
NextConfig == Construct
SpecConfig == InitConfig /\ [][NextConfig]_vars

\* One task calling execute again and again on a constructed tool.
Init ==
  /\ params \in RunParams
  /\ environ = NoEnviron
  /\ constructed = TRUE
  /\ self = GoogleWeatherTool(params, environ)
  /\ inv = [i \in 1..1 |-> Idle]
Call ==
  \E i \in DOMAIN inv :
    inv[i].pc = "idle" /\ \E kwargs \in Kwargs : execute(i, kwargs)
GeocodeAnswers ==
  \E i \in DOMAIN inv :
    inv[i].pc = "geocode_get" /\ \E resp \in GeocodeResponses : geocode_get(i, resp)
WeatherAnswers ==
  \E i \in DOMAIN inv :
    inv[i].pc = "weather_get" /\ \E resp \in WeatherResponses : weather_get(i, resp)
Returns == \E i \in DOMAIN inv : Return(i)
Next == Call \/ GeocodeAnswers \/ WeatherAnswers \/ Returns
Spec == Init /\ [][Next]_vars

\* NumCalls tasks calling execute concurrently on one tool.
InitConc ==
  /\ params \in RunParams
  /\ environ = NoEnviron
  /\ constructed = TRUE
  /\ self = GoogleWeatherTool(params, environ)
  /\ inv = [i \in 1..NumCalls |-> Idle]
CallConc ==
  \E i \in DOMAIN inv :
    inv[i].pc = "idle" /\ \E kwargs \in KwargsConc : execute(i, kwargs)
NextConc == CallConc \/ GeocodeAnswers \/ WeatherAnswers \/ Returns
SpecConc == InitConc /\ [][NextConc]_vars

\* ------------------------------------------------------------ properties
\* A call argument that was supplied (kwargs.get(...) is not None).
Given(v) == v.t \notin {"absent", "none"}
KnownActions == {current_conditions, hourly_forecast, daily_forecast}
\* The geocoding GET answered with status OK and a first result that carries
\* geometry.location.
GeocodeSucceeded(resp) ==
  /\ ~resp.raised /\ resp.json /\ resp.isdict
  /\ resp.status = "OK" /\ resp.results # <<>> /\ resp.results[1].geometry
\* The invocation is past its location resolution.
Resolved(c) == c.pc \in {"weather_get", "done"} /\ Truthy(Get(c.kwargs.action))
IsPrefix(p, w) == Len(p) <= Len(w) /\ SubSeq(w, 1, Len(p)) = p
IsSuffix(p, w) == Len(p) <= Len(w) /\ SubSeq(w, Len(w) - Len(p) + 1, Len(w)) = p
MissingKeyReason == <<"Geocoding is enabled but no geocoding_api_key is configured.">>

\* C1: nothing raises past the entry point: every finished invocation of
\* execute has returned a mapping (a response or an {"error": ...} value),
\* whatever the geocoding call and the weather call did.
C1_NothingRaises ==
  \A i \in DOMAIN inv :
    inv[i].pc = "done" => inv[i].result.shape \in {"error", "response"}

\* C2: _resolve_location follows the fixed first-match-wins order: latitude and
\* longitude, then lat and lon, then a "lat,lon" location string, then
\* geocoding (its result on success, an error embedding the reason on failure,
\* an error when disabled), then the missing-location error.
C2_ResolutionOrder ==
  \A i \in DOMAIN inv :
    LET c == inv[i]
        k == c.kwargs
        r == c.location_result
    IN Resolved(c) =>
         IF Given(k.latitude) /\ Given(k.longitude)
         THEN IF CanFloat(k.latitude) /\ CanFloat(k.longitude)
              THEN r = Coordinates(ToFloat(k.latitude), ToFloat(k.longitude))
              ELSE r = LocationError(<<"Invalid latitude/longitude values; must be numeric.">>)
         ELSE IF Given(k.lat) /\ Given(k.lon)
         THEN IF CanFloat(k.lat) /\ CanFloat(k.lon)
              THEN r = Coordinates(ToFloat(k.lat), ToFloat(k.lon))
              ELSE r = LocationError(<<"Invalid lat/lon values; must be numeric.">>)
         ELSE IF k.location.t = "str" /\ parse_lat_lon(k.location.s).ok
         THEN r = Coordinates(parse_lat_lon(k.location.s).lat,
                              parse_lat_lon(k.location.s).lon)
         ELSE IF k.location.t = "str"
         THEN IF ~self.geocoding_enabled
              THEN r = LocationError(<<"Provide latitude and longitude or enable geocoding with a resolvable location string.">>)
              ELSE IF GeocodeSucceeded(c.geocode_response)
              THEN r = Coordinates(c.geocode_response.results[1].lat,
                                   c.geocode_response.results[1].lng)
              ELSE /\ r.k = "error"
                   /\ IsPrefix(<<"Could not geocode location '">> \o k.location.s, r.error)
         ELSE r = LocationError(<<"Missing location. Provide latitude and longitude or a 'location' string.">>)

\* C3: no geocoding request is issued by an invocation whose location is
\* resolvable without it (latitude and longitude both given, or lat and lon
\* both given, or a location string that parses as "lat,lon"), whether
\* geocoding is enabled or not.
ResolvableWithoutGeocoding(k) ==
  \/ Given(k.latitude) /\ Given(k.longitude)
  \/ Given(k.lat) /\ Given(k.lon)
  \/ k.location.t = "str" /\ parse_lat_lon(k.location.s).ok
C3_NoNeedlessGeocoding ==
  \A i \in DOMAIN inv :
    (inv[i].pc # "idle" /\ ResolvableWithoutGeocoding(inv[i].kwargs))
      => inv[i].geocode_gets = 0 /\ inv[i].geocode_calls = 0 /\ inv[i].pc # "geocode_get"
\* A call with only a "lat,lon" location string, on a tool with geocoding
\* enabled and a key, has sent its weather request without geocoding.
C3_Witness ==
  \E i \in DOMAIN inv :
    /\ inv[i].pc = "done" /\ inv[i].weather_gets = 1 /\ inv[i].geocode_gets = 0
    /\ self.geocoding_enabled /\ Truthy(self.geocoding_api_key)
    /\ ~Given(inv[i].kwargs.latitude) /\ ~Given(inv[i].kwargs.lat)
    /\ inv[i].kwargs.location.t = "str"
    /\ inv[i].location_result = Coordinates(476, -1223)

\* C4 (as claimed): every invocation with an action name that is present but
\* not one of the three known ones returns exactly
\* {"error": "Unknown action: <action>"}, whatever its location inputs.
UnknownAction(k) == k.action.t = "str" /\ k.action.s # <<>> /\ k.action \notin KnownActions
C4_UnknownActionAlways ==
  \A i \in DOMAIN inv :
    (inv[i].pc = "done" /\ UnknownAction(inv[i].kwargs))
      => inv[i].result = ErrorResult(<<"Unknown action: ">> \o inv[i].kwargs.action.s)
\* C4 (amended): an invocation with an unknown action name never sends a weather
\* request, and returns exactly {"error": "Unknown action: <action>"} when its
\* location resolved to coordinates; when the location did not resolve, the
\* resolver's error is what it returns (or the resolver's exception leaves it).
C4_UnknownActionAfterLocation ==
  \A i \in DOMAIN inv :
    LET c == inv[i]
    IN (c.pc # "idle" /\ UnknownAction(c.kwargs)) =>
         /\ c.weather_gets = 0 /\ c.pc # "weather_get"
         /\ (c.pc = "done" /\ c.location_result.k = "coords")
              => c.result = ErrorResult(<<"Unknown action: ">> \o c.kwargs.action.s)
         /\ (c.pc = "done" /\ c.location_result.k = "error")
              => c.result = ErrorResult(c.location_result.error)
         /\ (c.pc = "done" /\ c.location_result.k = "raised")
              => c.result.shape = "raised"
\* An unknown action with coordinates that came from geocoding.
C4_Witness ==
  \E i \in DOMAIN inv :
    /\ inv[i].pc = "done" /\ UnknownAction(inv[i].kwargs)
    /\ inv[i].geocode_gets = 1
    /\ inv[i].location_result.k = "coords"
    /\ inv[i].result = ErrorResult(<<"Unknown action: ", "bogus_action">>)

\* C5: with geocoding enabled and no geocoding key resolved, every invocation
\* that reaches the geocoding client returns an error that embeds "Geocoding is
\* enabled but no geocoding_api_key is configured." and issues no geocoding GET
\* and no weather GET (and construction itself did not fail).
C5_MissingGeocodingKey ==
  (constructed /\ self.geocoding_enabled /\ ~Truthy(self.geocoding_api_key)) =>
    \A i \in DOMAIN inv :
      inv[i].geocode_calls > 0 =>
        /\ inv[i].pc = "done"
        /\ inv[i].result.shape = "error"
        /\ IsSuffix(MissingKeyReason, inv[i].result.error)
        /\ inv[i].geocode_gets = 0 /\ inv[i].weather_gets = 0 /\ inv[i].opened = 0
\* A place name given to a tool constructed with geocoding enabled and no key.
C5_Witness ==
  /\ constructed /\ self.geocoding_enabled /\ self.geocoding_api_key = PyNone
  /\ params.geocoding_api_key = Absent
  /\ \E i \in DOMAIN inv :
       /\ inv[i].geocode_calls = 1 /\ inv[i].pc = "done"
       /\ inv[i].kwargs.location = Text(Seattle)
       /\ IsSuffix(MissingKeyReason, inv[i].result.error)

\* C6: per-call overrides win over the configured defaults: a weather request
\* carries the caller's `units` as unitsSystem and the caller's `language` as
\* languageCode when they are supplied, and the defaults of the settings only
\* when they are absent.
C6_PerCallOverrides ==
  \A i \in DOMAIN inv :
    inv[i].weather_gets > 0 =>
      /\ inv[i].request.unitsSystem =
           (IF inv[i].kwargs.units # Absent THEN inv[i].kwargs.units
            ELSE PyStr(self.units_default))
      /\ inv[i].request.languageCode =
           (IF inv[i].kwargs.language # Absent THEN inv[i].kwargs.language
            ELSE PyStr(self.language_default))

\* C7: every HTTP client an invocation opens is released on every exit path: a
\* finished invocation holds no open client, and no invocation ever holds more
\* than one.
C7_ClientsReleased ==
  \A i \in DOMAIN inv :
    /\ inv[i].open \in {0, 1}
    /\ inv[i].pc \in {"idle", "done"} => inv[i].open = 0
    /\ inv[i].pc \in {"geocode_get", "weather_get"} => inv[i].open = 1
\* An invocation that opened a client for geocoding and one for the weather
\* request, and ended with the weather GET raising.
C7_Witness ==
  \E i \in DOMAIN inv :
    /\ inv[i].pc = "done" /\ inv[i].opened = 2 /\ inv[i].open = 0
    /\ inv[i].weather_reply.raised

\* C8: key derivation: the weather key is the api_key parameter after ${NAME}
\* expansion if non-empty, else GOOGLE_WEATHER_API_KEY, else GOOGLE_API_KEY,
\* else absent; the geocoding key is the geocoding_api_key parameter after
\* expansion if non-empty, else GOOGLE_MAPS_API_KEY, else the resolved weather
\* key, else absent.
NonEmpty(v) == v.t = "str" /\ v.s # <<>>
FirstNonEmpty(candidates) ==
  IF \E k \in 1..Len(candidates) : NonEmpty(candidates[k])
  THEN candidates[CHOOSE k \in 1..Len(candidates) :
                    /\ NonEmpty(candidates[k])
                    /\ \A j \in 1..(k - 1) : ~NonEmpty(candidates[j])]
  ELSE PyNone
C8_KeyPrecedence ==
  constructed =>
    /\ self.api_key = FirstNonEmpty(<<expand_env(environ, params.api_key),
                                      environ[GOOGLE_WEATHER_API_KEY],
                                      environ[GOOGLE_API_KEY]>>)
    /\ self.geocoding_api_key =
         FirstNonEmpty(<<expand_env(environ, params.geocoding_api_key),
                         environ[GOOGLE_MAPS_API_KEY],
                         self.api_key>>)
    /\ (/\ params.api_key = Text(<<"$", "{", "GOOGLE_WEATHER_API_KEY", "}">>)
        /\ NonEmpty(environ[GOOGLE_WEATHER_API_KEY]))
         => self.api_key = environ[GOOGLE_WEATHER_API_KEY]
\* api_key = "${GOOGLE_WEATHER_API_KEY}" with the variable set, GOOGLE_API_KEY
\* set too, and no geocoding key of its own: both keys are the variable's value.
C8_Witness ==
  /\ constructed
  /\ params.api_key = Text(<<"$", "{", "GOOGLE_WEATHER_API_KEY", "}">>)
  /\ NonEmpty(environ[GOOGLE_WEATHER_API_KEY]) /\ NonEmpty(environ[GOOGLE_API_KEY])
  /\ params.geocoding_api_key = Absent /\ environ[GOOGLE_MAPS_API_KEY] = Text(<<>>)
  /\ self.api_key = Text(<<"XYZ">> \o GOOGLE_WEATHER_API_KEY)
  /\ self.geocoding_api_key = self.api_key

\* C9: every value execute returns has one of two shapes: the keys status_code,
\* headers and body (and no error key), exactly when a weather GET received an
\* HTTP response, whose status code (2xx or not) and body are returned as they
\* came; or the single key error, which arises only without a weather request
\* or from a weather GET that raised.
C9_ResultShapes ==
  \A i \in DOMAIN inv :
    LET c == inv[i]
    IN (c.pc = "done" /\ c.result.shape # "raised") =>
         /\ c.result.shape \in {"response", "error"}
         /\ c.result.shape = "response" <=> c.weather_response
         /\ c.weather_response <=> (c.weather_gets = 1 /\ ~c.weather_reply.raised)
         /\ c.result.shape = "response" =>
              /\ c.result.keys = {"status_code", "headers", "body"}
              /\ c.result.status_code = c.weather_reply.status_code
              /\ c.result.body[2] = c.weather_reply.content
              /\ c.result.error = <<>>
         /\ c.result.shape = "error" =>
              /\ c.result.keys = {"error"}
              /\ c.result.error # <<>>
              /\ c.weather_gets = 0 \/ c.weather_reply.raised
\* A weather GET answered 404 and the invocation returned it as a response.
C9_Witness ==
  \E i \in DOMAIN inv :
    /\ inv[i].pc = "done" /\ inv[i].weather_reply.status_code = 404
    /\ inv[i].result.shape = "response" /\ inv[i].result.status_code = 404

\* C10: invocations are stateless and independent: the settings keep the values
\* construction gave them through every interleaving of invocations, and what
\* an invocation sends and returns is determined by its own arguments and the
\* answers to its own network calls: two invocations with the same arguments
\* and answers have the same coordinates, request and result.
C10_Stateless ==
  /\ self = GoogleWeatherTool(params, environ)
  /\ \A i \in DOMAIN inv : \A j \in DOMAIN inv :
       (/\ inv[i].pc = "done" /\ inv[j].pc = "done"
        /\ inv[i].kwargs = inv[j].kwargs
        /\ inv[i].geocode_response = inv[j].geocode_response
        /\ inv[i].weather_reply = inv[j].weather_reply)
         => inv[i] = inv[j]
\* Two invocations went through geocoding concurrently: one, finished, sent its
\* own units override, the other, still awaiting its weather GET, the default.
C10_Witness ==
  \E i \in DOMAIN inv : \E j \in DOMAIN inv :
    /\ i # j
    /\ inv[i].pc = "done" /\ inv[j].pc = "weather_get"
    /\ inv[i].kwargs.unitsSystem = Text(<<"metric">>)
    /\ inv[j].kwargs.unitsSystem = Absent
    /\ inv[i].request.unitsSystem = Text(<<"metric">>)
    /\ inv[j].request.unitsSystem = PyStr(self.units_default)
    /\ inv[i].geocode_gets = 1 /\ inv[j].geocode_gets = 1
====
